---------------------------- MODULE Spec2Model ----------------------------
(***************************************************************************)
(* A model of tiff2pdf.py: the TIFF signature validator check_hex, the     *)
(* single-file converter tiff_to_pdf and the batch pipeline main.          *)
(*                                                                         *)
(* Python strings (file names, paths, hex dumps) are sequences of          *)
(* one-character strings, so that endswith, "in", replace, slicing and     *)
(* concatenation are computed as Python computes them.  File contents are  *)
(* sequences of byte values 0..255.                                        *)
(***************************************************************************)
EXTENDS Integers, Sequences, FiniteSets

VARIABLES
    endian,             \* sys.byteorder of the host
    argv,               \* sys.argv: script name, job identifier, file names
    fs,                 \* the file system: path -> file
    listing,            \* the os.listdir(input_path) result iterated at line 135
    i,                  \* position of the loop of line 135 in listing
    j,                  \* position of the loops of lines 145 and 159
    middle_file_names,  \* main's list of intermediate PDF paths
    merger,             \* the pages held by the PdfFileMerger
    pc,                 \* where main is
    raised,             \* the exception that left main, or "none"
    dir0,               \* history: the file system when main started
    converted,          \* history: the paths tiff_to_pdf converted, in order
    vanished,           \* history: paths another process removed during the run
    fn_in,              \* the arguments of a single call of check_hex or pdf_path
    fn_out              \* <<its result>>, or <<>> before the call

vars == <<endian, argv, fs, listing, i, j, middle_file_names, merger, pc,
          raised, dir0, converted, vanished, fn_in, fn_out>>

pipeVars == <<endian, argv, fs, listing, i, j, middle_file_names, merger, pc,
              raised, dir0, converted, vanished>>

-----------------------------------------------------------------------------
(* Bounds of the model *)

\* most entries of pdf/input when a batch starts
MaxFiles == 3
\* most file names on the command line
MaxManifest == 2
\* longest file head enumerated for check_hex
MaxHead == 4
\* longest stem (the part before the suffix) enumerated for the path derivation
MaxStem == 4

-----------------------------------------------------------------------------
(* Python string operations *)

\* s[:n]
Take(s, n) == SubSeq(s, 1, IF n < Len(s) THEN n ELSE Len(s))

\* s[n:]
Drop(s, n) == SubSeq(s, n + 1, Len(s))

\* s.endswith(suffix)
endswith(s, suffix) ==
    /\ Len(s) >= Len(suffix)
    /\ SubSeq(s, Len(s) - Len(suffix) + 1, Len(s)) = suffix

\* s.startswith(prefix)
startswith(s, prefix) == Len(s) >= Len(prefix) /\ Take(s, Len(prefix)) = prefix

\* sub in s, for strings
contains(s, sub) ==
    \E k \in 0..(Len(s) - Len(sub)) : SubSeq(s, k + 1, k + Len(sub)) = sub

RECURSIVE replace(_, _, _)
\* s.replace(old, new): every non-overlapping occurrence, left to right
replace(s, old, new) ==
    IF Len(s) < Len(old) THEN s
    ELSE IF startswith(s, old)
         THEN new \o replace(Drop(s, Len(old)), old, new)
         ELSE <<Head(s)>> \o replace(Tail(s), old, new)

Upper == <<"A", "B", "C", "D", "E", "F", "G", "H", "I", "J", "K", "L", "M",
           "N", "O", "P", "Q", "R", "S", "T", "U", "V", "W", "X", "Y", "Z">>
Lower == <<"a", "b", "c", "d", "e", "f", "g", "h", "i", "j", "k", "l", "m",
           "n", "o", "p", "q", "r", "s", "t", "u", "v", "w", "x", "y", "z">>

\* s.lower()
lower(s) ==
    [k \in 1..Len(s) |->
        IF \E u \in 1..Len(Upper) : Upper[u] = s[k]
        THEN Lower[CHOOSE u \in 1..Len(Upper) : Upper[u] = s[k]]
        ELSE s[k]]

\* x in lst, for a list
inList(x, lst) == \E k \in 1..Len(lst) : lst[k] = x

\* os.path.join(a, b)
join(a, b) == a \o <<"/">> \o b

DotTif == <<".", "t", "i", "f">>
DotTiff == <<".", "t", "i", "f", "f">>
DotPdf == <<".", "p", "d", "f">>

-----------------------------------------------------------------------------
(* check_hex *)

HexDigits == <<"0", "1", "2", "3", "4", "5", "6", "7",
               "8", "9", "a", "b", "c", "d", "e", "f">>

RECURSIVE hexlify(_)
\* binascii.hexlify(chunk): two lower-case hex digits per byte
hexlify(chunk) ==
    IF chunk = <<>> THEN <<>>
    ELSE <<HexDigits[(Head(chunk) \div 16) + 1], HexDigits[(Head(chunk) % 16) + 1]>>
         \o hexlify(Tail(chunk))

\* str(b) of a bytes object of hex digits: b'...'
strOfBytes(b) == <<"b", "'">> \o b \o <<"'">>

\* the argument of f.read at line 61
ChunkSize == 32
\* the bound of line 64: the loop breaks once n > 10
ChunkLimit == 10

\* the signature compared at line 66, chosen by sys.byteorder at lines 51-55
byte_sig_mut(byteorder) ==
    IF byteorder = "little"
    THEN <<"b", "'", "4", "d", "4", "d", "0", "0", "2", "a">>
    ELSE <<"b", "'", "4", "9", "4", "9", "2", "a", "0", "0">>

byte_sig(byteorder) ==
    IF byteorder = "little"
    THEN <<"b", "'", "4", "9", "4", "9", "2", "a", "0", "0">>
    ELSE <<"b", "'", "4", "d", "4", "d", "0", "0", "2", "a">>

RECURSIVE readLoop(_, _, _)
\* the loop of lines 61-65 over the unread rest of the file: f.read(32) until it
\* returns b"", each chunk's str(hexlify) appended, left once n > 10
readLoop(rest, hex_dump, n) ==
    IF rest = <<>> THEN hex_dump
    ELSE LET chunk == Take(rest, ChunkSize)
             dump == hex_dump \o strOfBytes(hexlify(chunk))
         IN IF n + 1 > ChunkLimit THEN dump
            ELSE readLoop(Drop(rest, ChunkSize), dump, n + 1)

\* what check_hex returns for a file it could open, of content data
check_hex(data, byteorder) ==
    Take(readLoop(data, <<>>, 0), 10) = byte_sig(byteorder)

-----------------------------------------------------------------------------
(* tiff_to_pdf: the path derivation of lines 94-97 *)

pdf_path(tiff_path) ==
    IF contains(tiff_path, DotTiff)
    THEN replace(tiff_path, DotTiff, DotPdf)
    ELSE replace(tiff_path, DotTif, DotPdf)

-----------------------------------------------------------------------------
(* The file system and the inputs of a batch *)

\* os.path.join('pdf', 'input') and os.path.join('pdf', 'output')
InputPath == join(<<"p", "d", "f">>, <<"i", "n", "p", "u", "t">>)
OutPath == join(<<"p", "d", "f">>, <<"o", "u", "t", "p", "u", "t">>)

\* os.listdir(dir): the names of the entries of dir
listdir(dir) ==
    {Drop(p, Len(dir) + 1) : p \in {q \in DOMAIN fs : startswith(q, dir \o <<"/">>)}}

\* the file system with path p holding file f (created or overwritten)
Put(files, p, f) ==
    [q \in DOMAIN files \cup {p} |-> IF q = p THEN f ELSE files[q]]

\* the file system without the paths of gone
Del(files, gone) == [q \in DOMAIN files \ gone |-> files[q]]

\* the permutations of a finite set, as sequences
Perms(S) ==
    {s \in [1..Cardinality(S) -> S] :
        \A a, b \in 1..Cardinality(S) : a # b => s[a] # s[b]}

RECURSIVE SeqOf(_)
\* some sequence of the elements of a finite set
SeqOf(S) ==
    IF S = {} THEN <<>>
    ELSE LET x == CHOOSE y \in S : TRUE IN <<x>> \o SeqOf(S \ {x})

LEMagic == <<73, 73, 42, 0>>
BEMagic == <<77, 77, 0, 42>>

\* the file names a batch may meet
Names ==
    {<<"a", ".", "t", "i", "f">>, <<"a", ".", "t", "i", "f", "f">>,
     <<"b", ".", "t", "i", "f">>, <<"a", ".", "p", "d", "f">>,
     <<"c", ".", "t", "x", "t">>}

\* what a file of a given name may hold when the batch starts
KindsFor(n) ==
    IF n = <<"a", ".", "t", "i", "f">>
    THEN {"le2", "be1", "corrupt", "locked"}
    ELSE IF endswith(n, DotTif) \/ endswith(n, DotTiff) THEN {"le2", "be1"}
    ELSE IF endswith(n, DotPdf) THEN {"pdf"} ELSE {"le1"}

\* frame k of the image stored under name n; its colour mode is not RGB
Frame(n, k) == [src |-> n, idx |-> k, mode |-> IF k = 1 THEN "L" ELSE "CMYK"]

\* a file of the given kind stored under name n
MkFile(n, kind) ==
    CASE kind = "le1" ->
           [bytes |-> LEMagic \o <<8>>, pages |-> <<Frame(n, 1)>>,
            readable |-> TRUE, decodable |-> TRUE]
      [] kind = "le2" ->
           [bytes |-> LEMagic \o <<8>>, pages |-> <<Frame(n, 1), Frame(n, 2)>>,
            readable |-> TRUE, decodable |-> TRUE]
      [] kind = "be1" ->
           [bytes |-> BEMagic \o <<0>>, pages |-> <<Frame(n, 1)>>,
            readable |-> TRUE, decodable |-> TRUE]
      [] kind = "corrupt" ->
           [bytes |-> LEMagic \o <<8>>, pages |-> <<>>,
            readable |-> TRUE, decodable |-> FALSE]
      [] kind = "locked" ->
           [bytes |-> LEMagic \o <<8>>, pages |-> <<Frame(n, 1)>>,
            readable |-> FALSE, decodable |-> TRUE]
      [] kind = "pdf" ->
           [bytes |-> <<37, 80, 68, 70>>,
            pages |-> <<[src |-> n, idx |-> 1, mode |-> "RGB"]>>,
            readable |-> TRUE, decodable |-> FALSE]

\* the directories pdf/input a batch may start from
Directories ==
    UNION {{[p \in {join(InputPath, n) : n \in D} |->
                MkFile(Drop(p, Len(InputPath) + 1), k[Drop(p, Len(InputPath) + 1)])] :
             k \in {f \in [D -> {"le1", "le2", "be1", "corrupt", "locked", "pdf"}] :
                      \A n \in D : f[n] \in KindsFor(n)}} :
           D \in {E \in SUBSET Names : Cardinality(E) \in 1..MaxFiles}}

ScriptName == <<"t", "i", "f", "f", "2", "p", "d", "f", ".", "p", "y">>
JobIds == {<<"D", ",", "j">>, <<"b", ".", "t", "i", "f">>}

\* the command lines: script, job identifier, file names
CommandLines ==
    {<<ScriptName, id>> \o SeqOf(m) :
        id \in JobIds, m \in {E \in SUBSET Names : Cardinality(E) <= MaxManifest}}

\* the values of now.strftime("%Y_%m_%d_%H_%M_%S") at line 151
Stamps ==
    {<<"2", "0", "2", "2", "_", "0", "1", "_", "0", "2", "_",
       "0", "3", "_", "0", "4", "_", "0", "5">>,
     <<"2", "0", "2", "2", "_", "1", "2", "_", "3", "1", "_",
       "2", "3", "_", "5", "9", "_", "5", "9">>}

\* lines 125-126
pat_files == argv
pat_id == replace(lower(argv[2]), <<",">>, <<"_">>)

\* line 151
outfile_name(now) == pat_id \o <<"_", "m", "e", "r", "g", "e", "d", "_">> \o now \o DotPdf

\* a PDF file holding the given pages
PdfFile(pages) ==
    [bytes |-> <<37, 80, 68, 70>>, pages |-> pages, readable |-> TRUE,
     decodable |-> FALSE]

\* what a failed save may leave at its path
PartialFile == [bytes |-> <<>>, pages |-> <<>>, readable |-> TRUE, decodable |-> FALSE]

-----------------------------------------------------------------------------
(* main *)

\* the order of main's stages, lines 135-172
Stages_cleanupFirst ==
    <<"filter", "merge", "rm_middle", "rm_origin", "write", "report", "done">>

Stages == <<"filter", "merge", "write", "rm_middle", "rm_origin", "report", "done">>

\* the stage main enters when stage s is complete
StageAfter(s) == Stages[(CHOOSE k \in 1..Len(Stages) : Stages[k] = s) + 1]

\* an exception nothing catches leaves main: the process ends
Raise(e) == raised' = e /\ pc' = "crashed"

Init ==
    /\ endian \in {"little", "big"}
    /\ argv \in CommandLines
    /\ fs \in Directories
    /\ dir0 = fs
    /\ listing = <<>>
    /\ i = 1
    /\ j = 1
    /\ middle_file_names = <<>>
    /\ merger = <<>>
    /\ pc = "start"
    /\ raised = "none"
    /\ converted = <<>>
    /\ vanished = {}
    /\ fn_in = <<>>
    /\ fn_out = <<>>

\* lines 125-135: the arguments are read and pdf/input is listed, in any order
Start ==
    /\ pc = "start"
    /\ listing' \in Perms(listdir(InputPath))
    /\ i' = 1
    /\ middle_file_names' = <<>>
    /\ pc' = "filter"
    /\ UNCHANGED <<endian, argv, fs, j, merger, raised, dir0, converted, vanished,
                   fn_in, fn_out>>

\* line 136: the condition of the loop body for listing[i], left to right; open()
\* inside check_hex raises when the file cannot be opened
FilterStep ==
    /\ pc = "filter"
    /\ i <= Len(listing)
    /\ LET file == listing[i]
           path == join(InputPath, file)
       IN IF ~(endswith(file, DotTiff) \/ endswith(file, DotTif))
          THEN i' = i + 1 /\ UNCHANGED <<pc, raised>>
          ELSE IF path \notin DOMAIN fs \/ ~fs[path].readable
          THEN Raise("OSError") /\ UNCHANGED i
          ELSE IF ~check_hex(fs[path].bytes, endian)
          THEN i' = i + 1 /\ UNCHANGED <<pc, raised>>
          ELSE IF ~inList(file, pat_files)
          THEN i' = i + 1 /\ UNCHANGED <<pc, raised>>
          ELSE pc' = "convert" /\ UNCHANGED <<i, raised>>
    /\ UNCHANGED <<endian, argv, fs, listing, j, middle_file_names, merger, dir0,
                   converted, vanished, fn_in, fn_out>>

\* another process removes the file between the check of line 136 and tiff_to_pdf
EnvVanish ==
    /\ pc = "convert"
    /\ join(InputPath, listing[i]) \in DOMAIN fs
    /\ fs' = Del(fs, {join(InputPath, listing[i])})
    /\ vanished' = vanished \cup {join(InputPath, listing[i])}
    /\ UNCHANGED <<endian, argv, listing, i, j, middle_file_names, merger, pc,
                   raised, dir0, converted, fn_in, fn_out>>

\* lines 108-111: every frame converted to RGB, in the order of the file
images(frames) == [k \in 1..Len(frames) |-> [frames[k] EXCEPT !.mode = "RGB"]]

\* lines 114-117: the pages of the PDF that save writes
savedPages(imgs) ==
    IF Len(imgs) = 1 THEN <<imgs[1]>> ELSE <<imgs[1]>> \o Tail(imgs)

\* an exception raised in tiff_to_pdf: nothing in main catches it
ConvertFail_skip(e) ==
    /\ raised' = e
    /\ pc' = "filter"
    /\ i' = i + 1
    /\ UNCHANGED <<middle_file_names, converted>>

ConvertFail(e) ==
    /\ Raise(e)
    /\ UNCHANGED <<i, middle_file_names, converted>>

\* line 137: tiff_to_pdf (lines 94-120) on listing[i], its result appended
ConvertStep ==
    /\ pc = "convert"
    /\ LET tiff_path == join(InputPath, listing[i])
           pdf == pdf_path(tiff_path)
       IN IF tiff_path \notin DOMAIN fs
          THEN ConvertFail("NotFound") /\ UNCHANGED fs
          ELSE IF ~fs[tiff_path].decodable
          THEN ConvertFail("DecodeError") /\ UNCHANGED fs
          ELSE \/ /\ fs' = Put(fs, pdf, PdfFile(savedPages(images(fs[tiff_path].pages))))
                  /\ middle_file_names' = Append(middle_file_names, pdf)
                  /\ converted' = Append(converted, tiff_path)
                  /\ i' = i + 1
                  /\ pc' = "filter"
                  /\ UNCHANGED raised
               \/ /\ ConvertFail("SaveError")
                  /\ fs' \in {fs, Put(fs, pdf, PartialFile)}
    /\ UNCHANGED <<endian, argv, listing, j, merger, dir0, vanished, fn_in, fn_out>>

\* the loop of line 135 is exhausted; line 142 creates the merger
FilterDone ==
    /\ pc = "filter"
    /\ i > Len(listing)
    /\ pc' = StageAfter("filter")
    /\ j' = 1
    /\ merger' = <<>>
    /\ UNCHANGED <<endian, argv, fs, listing, i, middle_file_names, raised, dir0,
                   converted, vanished, fn_in, fn_out>>

\* lines 145-146: merger.append reads the pages of middle_file_names[j]
MergeStep ==
    /\ pc = "merge"
    /\ j <= Len(middle_file_names)
    /\ IF middle_file_names[j] \in DOMAIN fs
       THEN /\ merger' = merger \o fs[middle_file_names[j]].pages
            /\ j' = j + 1
            /\ UNCHANGED <<pc, raised>>
       ELSE Raise("FileNotFound") /\ UNCHANGED <<merger, j>>
    /\ UNCHANGED <<endian, argv, fs, listing, i, middle_file_names, dir0, converted,
                   vanished, fn_in, fn_out>>

MergeDone ==
    /\ pc = "merge"
    /\ j > Len(middle_file_names)
    /\ pc' = StageAfter("merge")
    /\ j' = 1
    /\ UNCHANGED <<endian, argv, fs, listing, i, middle_file_names, merger, raised,
                   dir0, converted, vanished, fn_in, fn_out>>

\* lines 149-156: the merged pages are written under the dated name
WriteOutput ==
    /\ pc = "write"
    /\ \E now \in Stamps :
          fs' = Put(fs, join(OutPath, outfile_name(now)), PdfFile(merger))
    /\ pc' = StageAfter("write")
    /\ j' = 1
    /\ UNCHANGED <<endian, argv, listing, i, middle_file_names, merger, raised, dir0,
                   converted, vanished, fn_in, fn_out>>

\* lines 159-161: os.remove of middle_file_names[j]; it raises on a missing file
RemoveMiddle ==
    /\ pc = "rm_middle"
    /\ j <= Len(middle_file_names)
    /\ IF middle_file_names[j] \in DOMAIN fs
       THEN /\ fs' = Del(fs, {middle_file_names[j]})
            /\ j' = j + 1
            /\ UNCHANGED <<pc, raised>>
       ELSE Raise("FileNotFound") /\ UNCHANGED <<fs, j>>
    /\ UNCHANGED <<endian, argv, listing, i, middle_file_names, merger, dir0,
                   converted, vanished, fn_in, fn_out>>

RemoveMiddleDone ==
    /\ pc = "rm_middle"
    /\ j > Len(middle_file_names)
    /\ pc' = StageAfter("rm_middle")
    /\ j' = 1
    /\ UNCHANGED <<endian, argv, fs, listing, i, middle_file_names, merger, raised,
                   dir0, converted, vanished, fn_in, fn_out>>

\* the paths the loop of lines 164-167 removes
originsToRemove_convertedOnly ==
    {join(InputPath, file) : file \in listdir(InputPath)} \cap
        {converted[k] : k \in 1..Len(converted)}

originsToRemove ==
    {join(InputPath, file) : file \in {f \in listdir(InputPath) : inList(f, pat_files)}}

\* lines 164-167: every entry of pdf/input named on the command line is removed
RemoveOrigins ==
    /\ pc = "rm_origin"
    /\ fs' = Del(fs, originsToRemove)
    /\ pc' = StageAfter("rm_origin")
    /\ j' = 1
    /\ UNCHANGED <<endian, argv, listing, i, middle_file_names, merger, raised, dir0,
                   converted, vanished, fn_in, fn_out>>

\* lines 170-172: success is printed and the process quits
Report ==
    /\ pc = "report"
    /\ pc' = StageAfter("report")
    /\ UNCHANGED <<endian, argv, fs, listing, i, j, middle_file_names, merger, raised,
                   dir0, converted, vanished, fn_in, fn_out>>

Next ==
    \/ Start
    \/ FilterStep
    \/ EnvVanish
    \/ ConvertStep
    \/ FilterDone
    \/ MergeStep
    \/ MergeDone
    \/ WriteOutput
    \/ RemoveMiddle
    \/ RemoveMiddleDone
    \/ RemoveOrigins
    \/ Report

Spec == Init /\ [][Next]_vars

-----------------------------------------------------------------------------
(* Single calls of check_hex and of the path derivation, on enumerated inputs *)

\* main is not running
Idle ==
    /\ endian = "little"
    /\ argv = <<>>
    /\ fs = <<>>
    /\ dir0 = <<>>
    /\ listing = <<>>
    /\ i = 1
    /\ j = 1
    /\ middle_file_names = <<>>
    /\ merger = <<>>
    /\ pc = "idle"
    /\ raised = "none"
    /\ converted = <<>>
    /\ vanished = {}

\* the byte values file heads are drawn from: 00, 2A ('*'), 49 ('I'), 4D ('M')
ByteVals == {0, 42, 73, 77}

\* what may follow the head: nothing, enough zero bytes for a second chunk, or
\* enough for more chunks than the loop reads
Tails == {[k \in 1..n |-> 0] : n \in {0, 30, 350}}

\* the file contents check_hex is called on
HexInputs ==
    {head \o tail :
        head \in UNION {[1..n -> ByteVals] : n \in 0..MaxHead}, tail \in Tails}

InitHex ==
    /\ Idle
    /\ fn_in \in {<<data, byteorder>> :
                    data \in HexInputs, byteorder \in {"little", "big"}}
    /\ fn_out = <<>>

\* check_hex(file_path) on a file that opens, under the host's byte order
CallHex ==
    /\ fn_out = <<>>
    /\ fn_out' = <<check_hex(fn_in[1], fn_in[2])>>
    /\ UNCHANGED <<fn_in, pipeVars>>

SpecHex == InitHex /\ [][CallHex]_vars

\* the characters stems are drawn from
StemChars == {"a", ".", "t", "i", "f"}

\* the paths tiff_to_pdf is called on: pdf/input/<stem><.tif or .tiff>
PathInputs ==
    {join(InputPath, stem \o suffix) :
        stem \in UNION {[1..n -> StemChars] : n \in 0..MaxStem},
        suffix \in {DotTif, DotTiff}}

InitPath ==
    /\ Idle
    /\ fn_in \in {<<tiff_path>> : tiff_path \in PathInputs}
    /\ fn_out = <<>>

\* lines 94-97 on one path
CallPath ==
    /\ fn_out = <<>>
    /\ fn_out' = <<pdf_path(fn_in[1])>>
    /\ UNCHANGED <<fn_in, pipeVars>>

SpecPath == InitPath /\ [][CallPath]_vars

-----------------------------------------------------------------------------
(* Vocabulary of the properties *)

\* the file names of the command line: the arguments after the job identifier
Manifest == {argv[k] : k \in 3..Len(argv)}

\* the name of an entry of pdf/input, from its path
nameOf(p) == Drop(p, Len(InputPath) + 1)

\* the TIFF magic number of a byte order
Magic(byteorder) ==
    IF byteorder = "little" THEN <<73, 73, 42, 0>> ELSE <<77, 77, 0, 42>>

\* the first four bytes of data are the magic number of the byte order
SignatureOk(data, byteorder) ==
    Len(data) >= 4 /\ SubSeq(data, 1, 4) = Magic(byteorder)

HasTiffSuffix(n) == endswith(n, DotTif) \/ endswith(n, DotTiff)

\* the three conditions of the filter, on the directory as the batch found it
Eligible(n) ==
    /\ HasTiffSuffix(n)
    /\ n \in Manifest
    /\ join(InputPath, n) \in DOMAIN dir0
    /\ dir0[join(InputPath, n)].readable
    /\ SignatureOk(dir0[join(InputPath, n)].bytes, endian)

\* the files of pdf/output
Outputs == {p \in DOMAIN fs : startswith(p, OutPath \o <<"/">>)}

\* the frames of a source file after RGB normalisation, in the order of the file
RGB(frames) ==
    [k \in 1..Len(frames) |->
        [src |-> frames[k].src, idx |-> frames[k].idx, mode |-> "RGB"]]

RECURSIVE ExpectedPages(_)
\* frames(S1) ++ ... ++ frames(Sn) of the sources as the batch found them
ExpectedPages(srcs) ==
    IF srcs = <<>> THEN <<>>
    ELSE RGB(dir0[Head(srcs)].pages) \o ExpectedPages(Tail(srcs))

\* the job identifier as it appears in the output name
ExpectedJob ==
    IF argv[2] = <<"D", ",", "j">> THEN <<"d", "_", "j">> ELSE argv[2]

\* the position of a path in the directory listing
posOf(p) == CHOOSE k \in 1..Len(listing) : join(InputPath, listing[k]) = p

ConversionErrors == {"NotFound", "DecodeError", "SaveError"}

\* main's stages in the order of the pipeline; the filter and the conversions
\* share one loop
Rank(stage) ==
    CASE stage = "start" -> 0
      [] stage \in {"filter", "convert"} -> 1
      [] stage = "merge" -> 2
      [] stage = "write" -> 3
      [] stage = "rm_middle" -> 4
      [] stage = "rm_origin" -> 5
      [] stage = "report" -> 6
      [] stage = "done" -> 7
      [] stage = "crashed" -> 8

-----------------------------------------------------------------------------
(* C1 *)

\* C1: check_hex returns true exactly when the file's first 4 bytes are
\* 49 49 2A 00 on a little-endian host or 4D 4D 00 2A on a big-endian host;
\* every other content, the empty file and files of 1 to 3 bytes included,
\* gives false.
C1_SignatureIff ==
    Len(fn_out) = 1 => (fn_out[1] <=> SignatureOk(fn_in[1], fn_in[2]))

\* a file longer than the loop reads is accepted on a big-endian host
C1_Witness ==
    /\ Len(fn_out) = 1
    /\ fn_out[1]
    /\ fn_in[2] = "big"
    /\ Len(fn_in[1]) > ChunkSize * (ChunkLimit + 1)

(* C2 *)

\* C2: the files the batch converts are exactly the directory entries that end
\* in .tif or .tiff, are in the manifest's file names and are accepted by the
\* validator, in directory-listing order; an entry failing one of the three is
\* never converted.
C2_ConvertedExactlyEligible ==
    /\ \A k \in 1..Len(converted) : Eligible(nameOf(converted[k]))
    /\ pc \in {"merge", "write", "rm_middle", "rm_origin", "report", "done"} =>
          converted = SelectSeq([k \in 1..Len(listing) |-> join(InputPath, listing[k])],
                                LAMBDA p : Eligible(nameOf(p)))

(* C3 *)

\* C3: the pages of the merged output are frames(S1) ++ ... ++ frames(Sn) for
\* the converted sources S1..Sn in listing order: nothing reordered,
\* duplicated, dropped or taken from another file.
C3_MergedPagesInOrder ==
    \A p \in Outputs : fs[p].pages = ExpectedPages(converted)

(* C4 *)

\* C4: after a run that reports success no intermediate PDF exists, no file
\* named in the manifest exists in pdf/input, and the merged output exists in
\* pdf/output as <job_id>_merged_<timestamp>.pdf.
C4_CleanAfterSuccess ==
    pc = "done" =>
        /\ \A k \in 1..Len(middle_file_names) : middle_file_names[k] \notin DOMAIN fs
        /\ \A n \in Manifest : join(InputPath, n) \notin DOMAIN fs
        /\ \E now \in Stamps :
              join(OutPath, ExpectedJob \o <<"_", "m", "e", "r", "g", "e", "d", "_">>
                            \o now \o DotPdf) \in DOMAIN fs

\* success after a batch that converted a file and held a manifest-listed TIFF
\* the validator rejected
C4_Witness ==
    /\ pc = "done"
    /\ Len(converted) >= 1
    /\ \E n \in Manifest :
          /\ HasTiffSuffix(n)
          /\ join(InputPath, n) \in DOMAIN dir0
          /\ ~SignatureOk(dir0[join(InputPath, n)].bytes, endian)

(* C5 *)

\* C5: when a conversion fails (source missing, decode error, write error) the
\* batch stops at that file: no later file is converted, no merged output is
\* written, no source file is deleted and success is not reported.
C5_AbortOnConversionFailure ==
    raised \in ConversionErrors =>
        /\ pc = "crashed"
        /\ Outputs = {}
        /\ i <= Len(listing)
        /\ \A k \in 1..Len(converted) : posOf(converted[k]) < i
        /\ \A p \in DOMAIN dir0 :
              HasTiffSuffix(nameOf(p)) /\ p \notin vanished => p \in DOMAIN fs

\* a decode error on a file with a converted file before it and a file after it
C5_Witness ==
    /\ raised = "DecodeError"
    /\ Len(converted) >= 1
    /\ i < Len(listing)

(* C6 *)

\* C6: when the file given to the validator cannot be opened, check_hex
\* returns false and no exception leaves it; the batch goes on without the file.
C6_ValidatorNeverRaises ==
    raised # "OSError"

(* C7 *)

\* C7: the intermediate PDFs are in 1:1 correspondence with the converted
\* sources: no intermediate path occurs twice in the list, and until the
\* cleanup every intermediate holds the pages of its own source.
C7_IntermediatesOneToOne ==
    /\ \A a, b \in 1..Len(middle_file_names) :
          a # b => middle_file_names[a] # middle_file_names[b]
    /\ Len(middle_file_names) = Len(converted)
    /\ pc \in {"filter", "convert", "merge", "write"} =>
          \A k \in 1..Len(middle_file_names) :
              /\ middle_file_names[k] \in DOMAIN fs
              /\ fs[middle_file_names[k]].pages = RGB(dir0[converted[k]].pages)

(* C8 *)

\* C8: for a path ending in .tiff or .tif the derived path is the path with
\* only that trailing suffix replaced by .pdf (.tiff before .tif): all before
\* the suffix is unchanged and the result ends in .pdf.
C8_OnlyTrailingSuffix ==
    Len(fn_out) = 1 =>
        LET path == fn_in[1]
            stem == IF endswith(path, DotTiff)
                    THEN Take(path, Len(path) - Len(DotTiff))
                    ELSE Take(path, Len(path) - Len(DotTif))
        IN fn_out[1] = stem \o DotPdf

(* C9 *)

\* C9: main removes no file before the merged output is written: the cleanup
\* starts only after the write, and no stage is entered again afterwards.
C9_CleanupAfterWrite ==
    [][/\ (\E p \in DOMAIN fs : p \notin DOMAIN fs' /\ p \notin vanished') =>
              Outputs # {} /\ pc \in {"rm_middle", "rm_origin"}
       /\ pc' \in {"rm_middle", "rm_origin"} => Outputs' # {}
       /\ Rank(pc') >= Rank(pc)]_vars

\* the cleanup has removed an intermediate PDF and reached the source files
C9_Witness ==
    /\ pc = "rm_origin"
    /\ Len(middle_file_names) >= 1
    /\ \A k \in 1..Len(middle_file_names) : middle_file_names[k] \notin DOMAIN fs
    /\ Outputs # {}

(* C10 *)

\* C10: a run leaves unchanged every file that was in pdf/input before it and
\* is not named in the manifest, a file named like a derived intermediate
\* (x.pdf next to x.tif) included.
C10_OthersUntouched ==
    \A p \in DOMAIN dir0 :
        nameOf(p) \notin Manifest /\ p \notin vanished =>
            p \in DOMAIN fs /\ fs[p] = dir0[p]

=============================================================================
